---- MODULE Spec2Model ----
(***************************************************************************)
(* A model of express-landlord: the Tenant record (lib/tenant.js), the     *)
(* Landlord resolution engine (lib/landlord.js) and the ExpressLandlord    *)
(* request binder (lib/express-landlord.js).                               *)
(*                                                                         *)
(* Configuration values are trees: a scalar V(n) or a plain object O(m),   *)
(* m a function from keys to values.  The scalar 0 stands for the falsy    *)
(* JavaScript scalars (null, false, 0, ""); every other scalar is truthy.  *)
(***************************************************************************)
EXTENDS Integers, Sequences, FiniteSets, TLC

VARIABLES
    options,       \* the options object handed to Landlord / ExpressLandlord
    colls,         \* the tenant collections built so far (objects on the heap)
    cur,           \* ExpressLandlord._tenants: an index into colls, 0 for the initial {}
    mws,           \* the collections a middleware returned by use() is bound to
    reqs,          \* the set of requests the middlewares have seen
    created,       \* how many handles the factory has returned: they are 1..created
    finCount,      \* finCount[h]: how many times handle h was passed to the finalizer
    failures,      \* how many factory and finalizer calls have thrown
    last           \* what the last call did: its name, its error, its calls

vars == <<options, colls, cur, mws, reqs, created, finCount, failures, last>>

(***************************************************************************)
(* Bounds of the model.                                                    *)
(***************************************************************************)
MaxRecords == 3
MaxHandles == 3
MaxFailures == 1

(***************************************************************************)
(* Configuration values.                                                   *)
(***************************************************************************)
V(n) == [t |-> "val", v |-> n]
O(m) == [t |-> "obj", m |-> m]
Undefined == [t |-> "undef"]
EmptyMap == [k \in {} |-> Undefined]

IsObject(x) == x.t = "obj"
Truthy(x) == IsObject(x) \/ (x.t = "val" /\ x.v # 0)

\* _.merge(object, source): lodash's baseMerge over plain objects and scalars.
\* A nested object of the source is merged into the destination's object at
\* that key, or into a fresh {} when the destination holds none; any other
\* source value is assigned.
RECURSIVE MergeObj(_, _)
MergeObj(object, source) ==
    [k \in (DOMAIN object) \cup (DOMAIN source) |->
        IF k \notin DOMAIN source THEN object[k]
        ELSE IF IsObject(source[k])
             THEN O(MergeObj(IF k \in DOMAIN object /\ IsObject(object[k])
                                 THEN object[k].m ELSE EmptyMap,
                             source[k].m))
             ELSE source[k]]

\* _.merge({}, defaultConfig, config): sources that are not objects
\* (undefined) contribute nothing.
LodashMerge_Nest(defaultConfig, config) ==
    O(("own" :> config)
        @@ (IF IsObject(defaultConfig) THEN defaultConfig.m ELSE EmptyMap))

LodashMerge(defaultConfig, config) ==
    LET d1 == IF IsObject(defaultConfig) THEN MergeObj(EmptyMap, defaultConfig.m)
              ELSE EmptyMap
        d2 == IF IsObject(config) THEN MergeObj(d1, config.m) ELSE d1
    IN  O(d2)

(***************************************************************************)
(* Tenant (lib/tenant.js).  db is 0 for null, otherwise the handle the     *)
(* factory returned; dbFinalizer is 0 for null, 1 for the finalizer.       *)
(***************************************************************************)
Falsy(name) == name = ""

\* new Tenant(name, config)
TenantCtorThrows(name, config) == Falsy(name) \/ ~Truthy(config)
NewTenant(name, config) ==
    [name |-> name, config |-> config, db |-> 0, dbFinalizer |-> 0]

ApplyDefaults_Reversed(tenant, defaultConfig) ==
    [tenant EXCEPT !.config = LodashMerge(tenant.config, defaultConfig)]

\* Tenant.applyDefaults(defaultConfig)
ApplyDefaults(tenant, defaultConfig) ==
    [tenant EXCEPT !.config = LodashMerge(defaultConfig, tenant.config)]

AttachDatabase_NoCheck(tenant, config, handle, factoryThrows) ==
    IF factoryThrows THEN [err |-> "FactoryError", tenant |-> tenant, called |-> TRUE]
    ELSE [err |-> "none", called |-> TRUE,
          tenant |-> [tenant EXCEPT !.db = handle, !.dbFinalizer = 1]]

\* Tenant.attachDatabase(factory, finalizer, config): handle is what factory(config)
\* returns, unless the factory throws.  called tells whether the factory ran.
AttachDatabase(tenant, config, handle, factoryThrows) ==
    IF tenant.db # 0
    THEN [err |-> "AlreadyAttached", tenant |-> tenant, called |-> FALSE]
    ELSE IF factoryThrows
    THEN [err |-> "FactoryError", tenant |-> tenant, called |-> TRUE]
    ELSE [err |-> "none", called |-> TRUE,
          tenant |-> [tenant EXCEPT !.db = handle, !.dbFinalizer = 1]]

DetachDatabase_NoFinalizer(tenant, finalizerThrows) ==
    [err |-> "none", finalized |-> <<>>,
     tenant |-> [tenant EXCEPT !.db = 0, !.dbFinalizer = 0]]

DetachDatabase_Unconditional(tenant, finalizerThrows) ==
    IF finalizerThrows
    THEN [err |-> "FinalizerError", tenant |-> tenant, finalized |-> <<tenant.db>>]
    ELSE [err |-> "none", finalized |-> <<tenant.db>>,
          tenant |-> [tenant EXCEPT !.db = 0, !.dbFinalizer = 0]]

\* Tenant.detachDatabase(): finalized lists the handle passed to the finalizer.
\* A finalizer that throws leaves the two assignments after it undone.
DetachDatabase(tenant, finalizerThrows) ==
    IF tenant.db # 0 /\ tenant.dbFinalizer # 0
    THEN IF finalizerThrows
         THEN [err |-> "FinalizerError", tenant |-> tenant, finalized |-> <<tenant.db>>]
         ELSE [err |-> "none", finalized |-> <<tenant.db>>,
               tenant |-> [tenant EXCEPT !.db = 0, !.dbFinalizer = 0]]
    ELSE [err |-> "none", finalized |-> <<>>,
          tenant |-> [tenant EXCEPT !.db = 0, !.dbFinalizer = 0]]

(***************************************************************************)
(* The tenant collection: the object literal {} of Landlord.loadTenants.   *)
(* keys are its own enumerable keys in insertion order (no tenant name of  *)
(* the model is an array index), recs their values, proto its prototype:   *)
(* <<>> for Object.prototype, <<t>> once `tenants['__proto__'] = t` ran.   *)
(* With the prototype a Tenant t, the collection inherits t's own fields:  *)
(* the model has the names of two of them, _name and _config, and no name  *)
(* of another member of a Tenant.                                          *)
(***************************************************************************)
SentinelName == "_default_"

\* a string as a value
Str(s) == [t |-> "str", s |-> s]

\* the constructor's this._name = name and this._config = config
TenantFields == {"_name", "_config"}

\* tenant[field]
FieldOf(tenant, field) == IF field = "_name" THEN Str(tenant.name) ELSE tenant.config

ObjectPrototypeMembers ==
    {"constructor", "__proto__", "toString", "valueOf", "hasOwnProperty",
     "isPrototypeOf", "propertyIsEnumerable", "toLocaleString"}

NewCollection == [keys |-> <<>>, recs |-> [k \in {} |-> Undefined], proto |-> <<>>]

OwnKeys(coll) == {coll.keys[i] : i \in 1..Len(coll.keys)}

\* name in tenants
In(name, coll) ==
    \/ name \in OwnKeys(coll)
    \/ name \in ObjectPrototypeMembers
    \/ coll.proto # <<>> /\ name \in TenantFields

\* tenants[name]: an own record, the prototype, a field inherited from a
\* prototype that is a Tenant, an inherited built-in, or undefined
Lookup(coll, name) ==
    IF name \in OwnKeys(coll) THEN [kind |-> "tenant", rec |-> coll.recs[name]]
    ELSE IF name = "__proto__" /\ coll.proto # <<>>
         THEN [kind |-> "tenant", rec |-> coll.proto[1]]
    ELSE IF name \in TenantFields /\ coll.proto # <<>>
         THEN [kind |-> "field", value |-> FieldOf(coll.proto[1], name)]
    ELSE IF name \in ObjectPrototypeMembers THEN [kind |-> "builtin"]
    ELSE [kind |-> "undefined"]

\* tenants[name].config: a record's config, the value under the key 'config'
\* of an inherited field that is an object, undefined for anything else
ConfigOf(found) ==
    IF found.kind = "tenant" THEN found.rec.config
    ELSE IF found.kind = "field" /\ IsObject(found.value)
                                /\ "config" \in DOMAIN found.value.m
         THEN found.value.m["config"]
    ELSE Undefined

\* tenants[name] = tenant
Assign(coll, name, tenant) ==
    IF name = "__proto__" THEN [coll EXCEPT !.proto = <<tenant>>]
    ELSE IF name \in OwnKeys(coll) THEN [coll EXCEPT !.recs[name] = tenant]
    ELSE [keys |-> Append(coll.keys, name),
          recs |-> (name :> tenant) @@ coll.recs,
          proto |-> coll.proto]

\* Object.values(tenants)
Values(coll) == [i \in 1..Len(coll.keys) |-> coll.recs[coll.keys[i]]]

(***************************************************************************)
(* Configuration providers.  A provider is                                 *)
(*   [kind |-> "memory", data |-> <<[name, config], ...>>]  InMemoryData   *)
(*   [kind |-> "files", files |-> <<[name, content], ...>>]  FileSystem,   *)
(*                          with the files its globs resolve to            *)
(*   [kind |-> "object"]    an object with no loadTenants function         *)
(*   [kind |-> "null"]      null or undefined in the providers array       *)
(***************************************************************************)
\* new InMemoryData({tenants}): tenants is [kind |-> "one", rec |-> record] or
\* [kind |-> "list", recs |-> <<record, ...>>]; one record is wrapped in a list
InMemoryData(tenants) ==
    [kind |-> "memory",
     data |-> IF tenants.kind = "list" THEN tenants.recs ELSE <<tenants.rec>>,
     tenants |-> tenants]

InMemoryLoad_SkipInvalid(data, i, tenants, logs) ==
    LET ok == SelectSeq(data, LAMBDA d : ~(Falsy(d.name) \/ ~Truthy(d.config)))
    IN  [err |-> "none", logs |-> logs,
         tenants |-> [j \in 1..Len(ok) |-> NewTenant(ok[j].name, ok[j].config)]]

\* InMemoryData.loadTenants: this._data.forEach(tenantData => ...) from the
\* i-th record on, with the tenants pushed and the lines logged so far.  A
\* record without name or config throws, and the call returns nothing.
RECURSIVE InMemoryLoad(_, _, _, _)
InMemoryLoad(data, i, tenants, logs) ==
    IF i > Len(data) THEN [err |-> "none", tenants |-> tenants, logs |-> logs]
    ELSE IF Falsy(data[i].name) \/ ~Truthy(data[i].config)
         THEN [err |-> "InvalidTenantData", tenants |-> <<>>, logs |-> logs]
         ELSE InMemoryLoad(data, i + 1,
                           Append(tenants, NewTenant(data[i].name, data[i].config)),
                           logs \o <<"found", "created">>)

\* String.prototype.toLowerCase on a piece of a file name
ToLowerCase(piece) ==
    IF piece = "T1" THEN "t1"
    ELSE IF piece = ".TENANT" THEN ".tenant"
    ELSE piece

\* name.replace('.tenant', ''): the first '.tenant' is removed
RECURSIVE ReplaceFirst(_)
ReplaceFirst(pieces) ==
    IF pieces = <<>> THEN <<>>
    ELSE IF Head(pieces) = ".tenant" THEN Tail(pieces)
    ELSE <<Head(pieces)>> \o ReplaceFirst(Tail(pieces))

RECURSIVE Join(_)
Join(pieces) == IF pieces = <<>> THEN "" ELSE Head(pieces) \o Join(Tail(pieces))

\* config.name.toLowerCase().replace('.tenant', '') of a file name given as
\* its pieces, each '.tenant', '.TENANT' or a text without either
TenantName(name) ==
    Join(ReplaceFirst([j \in 1..Len(name) |-> ToLowerCase(name[j])]))

\* FileSystem.loadTenants: configs.forEach(config => ...) from the i-th file
\* the glob resolver found on.  A file is [name, content], its content the
\* value require(fullPath) gives, or "invalid" when require throws.
RECURSIVE FileSystemLoad(_, _, _, _)
FileSystemLoad(files, i, tenants, logs) ==
    IF i > Len(files) THEN [err |-> "none", tenants |-> tenants, logs |-> logs]
    ELSE IF files[i].content = [t |-> "invalid"]
         THEN [err |-> "RequireError", tenants |-> <<>>, logs |-> Append(logs, "found")]
    ELSE IF TenantCtorThrows(TenantName(files[i].name), files[i].content)
         THEN [err |-> "MissingTenantConfiguration", tenants |-> <<>>,
               logs |-> Append(logs, "found")]
    ELSE FileSystemLoad(files, i + 1,
                        Append(tenants, NewTenant(TenantName(files[i].name),
                                                  files[i].content)),
                        logs \o <<"found", "created">>)

ProviderLoad_EmptyFails(provider) ==
    [err |-> "NoConfigs", tenants |-> <<>>, logs |-> <<>>]

\* provider.loadTenants(log): each provider logs one line first when it has
\* nothing to load
ProviderLoad(provider) ==
    IF provider.kind = "files"
    THEN FileSystemLoad(provider.files, 1, <<>>,
                        IF Len(provider.files) = 0 THEN <<"no files found">> ELSE <<>>)
    ELSE InMemoryLoad(provider.data, 1, <<>>,
                      IF Len(provider.data) = 0 THEN <<"no data">> ELSE <<>>)

\* typeof provider.loadTenants === 'function'
HasLoadTenants(provider) == provider.kind \in {"memory", "files"}

(***************************************************************************)
(* Landlord.loadTenants (lib/landlord.js).                                 *)
(***************************************************************************)
MergeTenant_Overwrite(coll, tenant) == Assign(coll, tenant.name, tenant)

\* the body of provider.loadTenants(log).forEach(tenant => ...)
MergeTenant(coll, tenant) ==
    IF In(tenant.name, coll)
    THEN Assign(coll, tenant.name,
                ApplyDefaults(tenant, ConfigOf(Lookup(coll, tenant.name))))
    ELSE Assign(coll, tenant.name, tenant)

RECURSIVE MergeTenants(_, _, _)
MergeTenants(coll, tenants, i) ==
    IF i > Len(tenants) THEN coll
    ELSE MergeTenants(MergeTenant(coll, tenants[i]), tenants, i + 1)

\* providers.forEach(provider => provider.loadTenants(log).forEach(...))
RECURSIVE LoadProviders(_, _, _)
LoadProviders(coll, providers, i) ==
    IF i > Len(providers) THEN [err |-> "none", coll |-> coll, consulted |-> i - 1]
    ELSE LET got == ProviderLoad(providers[i])
         IN  IF got.err # "none"
             THEN [err |-> got.err, coll |-> coll, consulted |-> i]
             ELSE LoadProviders(MergeTenants(coll, got.tenants, 1), providers, i + 1)

\* the default layer: tenants._default_ ? tenants._default_.config : null
DefaultConfig(coll) == ConfigOf(Lookup(coll, SentinelName))

ApplyDefaultsToAll_DefaultWins(coll, defaultConfig) ==
    [coll EXCEPT !.recs = [k \in DOMAIN coll.recs |->
        [coll.recs[k] EXCEPT !.config = LodashMerge(coll.recs[k].config, defaultConfig)]]]

ApplyDefaultsToAll_InPlace(coll, defaultConfig) ==
    LET polluted == LodashMerge(defaultConfig, coll.recs[coll.keys[1]].config)
    IN  [coll EXCEPT !.recs = [k \in DOMAIN coll.recs |->
                                  ApplyDefaults(coll.recs[k], polluted)]]

\* Object.values(tenants).forEach(tenant => tenant.applyDefaults(defaultConfig)):
\* every own record, the sentinel's too, with the one defaultConfig read
\* before the loop
ApplyDefaultsToAll(coll, defaultConfig) ==
    [coll EXCEPT !.recs = [k \in DOMAIN coll.recs |->
                              ApplyDefaults(coll.recs[k], defaultConfig)]]

NoTenantsFound_Never(coll) == FALSE

\* Object.keys(tenants).length === 0
NoTenantsFound(coll) == Len(coll.keys) = 0

\* options.providers is [kind |-> "absent"], [kind |-> "single", p |-> provider]
\* or [kind |-> "array", ps |-> <<provider, ...>>]
ProviderList(opts) ==
    IF opts.providers.kind = "array" THEN opts.providers.ps ELSE <<opts.providers.p>>

\* providers.forEach(provider => { if (typeof provider.loadTenants !==
\* 'function') throw ... }) from the i-th provider on: the first entry at fault
\* ends it, a null entry where provider.loadTenants is read
RECURSIVE ValidateProviders(_, _)
ValidateProviders(providers, i) ==
    IF i > Len(providers) THEN "none"
    ELSE IF providers[i].kind = "null" THEN "TypeError"
    ELSE IF ~HasLoadTenants(providers[i]) THEN "ProviderMissingLoadTenants"
    ELSE ValidateProviders(providers, i + 1)

LoadTenants(opts) ==
    IF opts.providers.kind = "absent"
    THEN [err |-> "MissingProviders", coll |-> NewCollection, consulted |-> 0]
    ELSE LET providers == ProviderList(opts)
             valid == ValidateProviders(providers, 1)
         IN  IF valid # "none"
             THEN [err |-> valid, coll |-> NewCollection, consulted |-> 0]
             ELSE LET loaded == LoadProviders(NewCollection, providers, 1)
                  IN  IF loaded.err # "none" THEN loaded
                      ELSE IF NoTenantsFound(loaded.coll)
                      THEN [loaded EXCEPT !.err = "NoConfigs"]
                      ELSE IF ~Truthy(DefaultConfig(loaded.coll)) THEN loaded
                      ELSE [loaded EXCEPT !.coll =
                               ApplyDefaultsToAll(loaded.coll, DefaultConfig(loaded.coll))]

(***************************************************************************)
(* Landlord.attachDatabases and Landlord.detachDatabases.                  *)
(* options.db is [present, factory, finalizer, configPath]: whether db and *)
(* its two functions are supplied, and the config path as its sequence of  *)
(* keys ('env.db' is <<"env", "db">>), <<>> when it is not supplied.       *)
(***************************************************************************)
Get_Whole(value, path, i) == value

\* _.get(tenant.config, configPath): undefined as soon as a segment is
\* missing or the value reached is not an object
RECURSIVE Get(_, _, _)
Get(value, path, i) ==
    IF i > Len(path) THEN value
    ELSE IF IsObject(value) /\ path[i] \in DOMAIN value.m
         THEN Get(value.m[path[i]], path, i + 1)
         ELSE Undefined

DbConfigured_FinalizerOptional(opts) ==
    opts.db.present /\ opts.db.factory /\ opts.db.configPath # <<>>

\* !(!options.db || !options.db.factory || !options.db.finalizer || !options.db.configPath)
DbConfigured(opts) ==
    opts.db.present /\ opts.db.factory /\ opts.db.finalizer /\ opts.db.configPath # <<>>

\* Object.values(tenants).forEach(tenant => ...) of attachDatabases, from the
\* i-th tenant on; n handles exist already, the factory throws when called
\* for the failAt-th tenant.  The first throw ends the loop.
RECURSIVE AttachEach(_, _, _, _, _, _)
AttachEach(coll, path, i, n, failAt, calls) ==
    IF i > Len(coll.keys)
    THEN [err |-> "none", coll |-> coll, created |-> n, calls |-> calls]
    ELSE LET key == coll.keys[i]
             dbConfig == Get(coll.recs[key].config, path, 1)
             r == AttachDatabase(coll.recs[key], dbConfig, n + 1, i = failAt)
             made == IF r.called
                     THEN <<[key |-> key, arg |-> dbConfig,
                             handle |-> IF r.err = "none" THEN n + 1 ELSE 0]>>
                     ELSE <<>>
         IN  IF ~Truthy(dbConfig)
             THEN AttachEach(coll, path, i + 1, n, failAt, calls)
             ELSE IF r.err # "none"
             THEN [err |-> r.err, coll |-> coll, created |-> n, calls |-> calls \o made]
             ELSE AttachEach([coll EXCEPT !.recs[key] = r.tenant], path, i + 1,
                             n + 1, failAt, calls \o made)

\* Landlord.attachDatabases(tenants, options)
AttachDatabases(coll, opts, n, failAt) ==
    IF ~DbConfigured(opts)
    THEN [err |-> "none", coll |-> coll, created |-> n, calls |-> <<>>]
    ELSE AttachEach(coll, opts.db.configPath, 1, n, failAt, <<>>)

\* Object.values(tenants).forEach(tenant => tenant.detachDatabase()), from the
\* i-th tenant on; the finalizer throws when called for the failAt-th tenant.
RECURSIVE DetachEach(_, _, _, _)
DetachEach(coll, i, failAt, fins) ==
    IF i > Len(coll.keys) THEN [err |-> "none", coll |-> coll, fins |-> fins]
    ELSE LET key == coll.keys[i]
             r == DetachDatabase(coll.recs[key], i = failAt)
         IN  IF r.err # "none"
             THEN [err |-> r.err, coll |-> coll, fins |-> fins \o r.finalized]
             ELSE DetachEach([coll EXCEPT !.recs[key] = r.tenant], i + 1, failAt,
                             fins \o r.finalized)

DetachDatabases_IfAllAttached(coll, failAt) ==
    IF \A k \in OwnKeys(coll) : coll.recs[k].db # 0
    THEN DetachEach(coll, 1, failAt, <<>>)
    ELSE [err |-> "none", coll |-> coll, fins |-> <<>>]

\* Landlord.detachDatabases(tenants, options)
DetachDatabases(coll, failAt) == DetachEach(coll, 1, failAt, <<>>)

\* the finalizer's call count after the calls fins
RECURSIVE Counted(_, _, _)
Counted(count, fins, i) ==
    IF i > Len(fins) THEN count
    ELSE Counted([count EXCEPT ![fins[i]] = @ + 1], fins, i + 1)

(***************************************************************************)
(* Inputs of the load specification: every way of spreading at most        *)
(* MaxRecords {name, config} records over one, two or three providers.     *)
(***************************************************************************)
Cfg1 == O(("x" :> V(1)) @@ ("env" :> O("db" :> V(1))))
Cfg2 == O(("x" :> V(2)) @@ ("y" :> V(3)) @@ ("env" :> O("url" :> V(1))))
Cfg3 == O("env" :> V(0))

LoadNames == {SentinelName, "t1", "t2", "__proto__"}
LoadConfigs == {Cfg1, Cfg2, Cfg3}
LoadData ==
    [name : LoadNames \ {"__proto__"}, config : LoadConfigs]
        \cup {[name |-> "__proto__", config |-> Cfg1]}

DataSeqs == UNION {[1..n -> LoadData] : n \in 0..MaxRecords}

\* the cut points that split a sequence of len records over n providers
Cuts(n, len) ==
    {c \in [0..n -> 0..len] :
        /\ c[0] = 0
        /\ c[n] = len
        /\ \A i \in 1..n : c[i - 1] <= c[i]}

Split(data, c, n) ==
    [i \in 1..n |-> [kind |-> "memory", data |-> SubSeq(data, c[i - 1] + 1, c[i])]]

NoDb == [present |-> FALSE, factory |-> FALSE, finalizer |-> FALSE, configPath |-> <<>>]
NoReq == [path |-> "tenant", tenantHeader |-> ""]

\* the record of a call: pre is the collection it was given as the call found
\* it, calls are the factory invocations it made, each [key, arg, handle]
\* (handle 0 when the factory threw), fins the handles it passed to the
\* finalizer, consulted the number of providers whose loadTenants it called,
\* ret and logs the tenants a provider's loadTenants returned and its log lines
Call(op, err, coll, key, pre, calls, fins) ==
    [op |-> op, err |-> err, coll |-> coll, key |-> key, pre |-> pre,
     calls |-> calls, fins |-> fins, consulted |-> 0, ret |-> <<>>, logs |-> <<>>]

NoCall == Call("none", "none", 0, "", NewCollection, <<>>, <<>>)

ProviderCounts == 1..3

\* before any call: no collection, no middleware, no request, no handle
InitRest ==
    /\ colls = <<>>
    /\ cur = 0
    /\ mws = {}
    /\ reqs = {}
    /\ created = 0
    /\ finCount = <<>>
    /\ failures = 0
    /\ last = NoCall

InitLoad ==
    /\ \E data \in DataSeqs, n \in ProviderCounts :
         \E c \in Cuts(n, Len(data)) :
            options = [providers |-> [kind |-> "array", ps |-> Split(data, c, n)],
                       db |-> NoDb, req |-> NoReq]
    /\ InitRest

\* Landlord.loadTenants(options), called once
CallLoadTenants ==
    /\ colls = <<>>
    /\ LET r == LoadTenants(options)
       IN  /\ colls' = IF r.err = "none" THEN Append(colls, r.coll) ELSE colls
           /\ last' = [Call("loadTenants", r.err,
                            IF r.err = "none" THEN Len(colls) + 1 ELSE 0, "",
                            NewCollection, <<>>, <<>>)
                          EXCEPT !.consulted = r.consulted]
    /\ UNCHANGED <<options, cur, mws, reqs, created, finCount, failures>>

NextLoad == CallLoadTenants

SpecLoad == InitLoad /\ [][NextLoad]_vars

(***************************************************************************)
(* The database specification: one collection loaded from an InMemoryData  *)
(* provider, then any sequence of Landlord.attachDatabases,                *)
(* Landlord.detachDatabases, tenant.attachDatabase and                     *)
(* tenant.detachDatabase on it.  The factory and the finalizer are the     *)
(* caller's functions: each call of one may throw.                         *)
(***************************************************************************)
Cfg0 == O(EmptyMap)
Cfg4 == O("env" :> O("db" :> V(0)))
Cfg5 == O("env" :> O("db" :> O("client" :> V(2))))

DbConfigs == {Cfg0, Cfg1, Cfg2, Cfg3, Cfg4, Cfg5}

\* one record, or two: the sentinel and a tenant in either order, one tenant
\* twice, or two tenants
DbNameLists ==
    {<<SentinelName>>, <<"t1">>, <<SentinelName, "t1">>, <<"t1", SentinelName>>,
     <<"t1", "t1">>, <<"t1", "t2">>}

DbDataSeqs ==
    UNION {{[i \in 1..Len(names) |-> [name |-> names[i], config |-> cs[i]]] :
               cs \in [1..Len(names) -> DbConfigs]} : names \in DbNameLists}

DbPath == <<"env", "db">>
DbComplete ==
    [present |-> TRUE, factory |-> TRUE, finalizer |-> TRUE, configPath |-> DbPath]

\* options.db absent, or lacking one of factory, finalizer and configPath
DbIncomplete ==
    {NoDb,
     [present |-> TRUE, factory |-> FALSE, finalizer |-> TRUE, configPath |-> DbPath],
     [present |-> TRUE, factory |-> TRUE, finalizer |-> FALSE, configPath |-> DbPath],
     [present |-> TRUE, factory |-> TRUE, finalizer |-> TRUE, configPath |-> <<>>]}

DbFewSeqs ==
    {<<[name |-> "t1", config |-> Cfg1]>>,
     <<[name |-> SentinelName, config |-> Cfg5], [name |-> "t1", config |-> Cfg2]>>}

DbOptions(data, db) ==
    [providers |-> [kind |-> "single", p |-> [kind |-> "memory", data |-> data]],
     db |-> db, req |-> NoReq]

InitDb ==
    /\ \/ \E data \in DbDataSeqs : options = DbOptions(data, DbComplete)
       \/ \E data \in DbFewSeqs, db \in DbIncomplete : options = DbOptions(data, db)
    /\ InitRest

\* the config a caller hands to tenant.attachDatabase directly
DirectConfig == V(1)

\* the call counts with the handles up to n known
Extended(count, n) == [h \in 1..n |-> IF h <= Len(count) THEN count[h] ELSE 0]

\* collection g of the heap; 0 is an empty collection {} of the caller's
Coll(g) == IF g = 0 THEN NewCollection ELSE colls[g]
Stored(g, coll) == IF g = 0 THEN colls ELSE [colls EXCEPT ![g] = coll]

\* Landlord.attachDatabases(tenants, options) on collection g
CallAttachDatabases(g) ==
    \E failAt \in 0..Len(colls[g].keys) :
        LET r == AttachDatabases(colls[g], options, created, failAt)
            threw == r.err = "FactoryError"
        IN  /\ r.created <= MaxHandles
            /\ threw => failures < MaxFailures
            /\ failAt > 0 => threw
            /\ colls' = [colls EXCEPT ![g] = r.coll]
            /\ created' = r.created
            /\ finCount' = Extended(finCount, r.created)
            /\ failures' = IF threw THEN failures + 1 ELSE failures
            /\ last' = Call("attachDatabases", r.err, g, "", colls[g], r.calls, <<>>)
            /\ UNCHANGED <<options, cur, mws, reqs>>

\* Landlord.detachDatabases(tenants, options) on collection g
CallDetachDatabases(g) ==
    \E failAt \in 0..Len(Coll(g).keys) :
        LET r == DetachDatabases(Coll(g), failAt)
            threw == r.err = "FinalizerError"
        IN  /\ threw => failures < MaxFailures
            /\ failAt > 0 => threw
            /\ colls' = Stored(g, r.coll)
            /\ finCount' = Counted(finCount, r.fins, 1)
            /\ failures' = IF threw THEN failures + 1 ELSE failures
            /\ last' = Call("detachDatabases", r.err, g, "", Coll(g), <<>>, r.fins)
            /\ UNCHANGED <<options, cur, mws, reqs, created>>

\* tenants[key].attachDatabase(factory, finalizer, config) on collection g
CallAttachDatabase(g, key) ==
    \E throws \in BOOLEAN :
        LET r == AttachDatabase(colls[g].recs[key], DirectConfig, created + 1, throws)
            threw == r.err = "FactoryError"
            n == IF r.err = "none" THEN created + 1 ELSE created
        IN  /\ n <= MaxHandles
            /\ threw => failures < MaxFailures
            /\ throws => threw
            /\ colls' = [colls EXCEPT ![g].recs[key] = r.tenant]
            /\ created' = n
            /\ finCount' = Extended(finCount, n)
            /\ failures' = IF threw THEN failures + 1 ELSE failures
            /\ last' = Call("attachDatabase", r.err, g, key, colls[g],
                            IF r.called
                            THEN <<[key |-> key, arg |-> DirectConfig,
                                    handle |-> IF r.err = "none" THEN n ELSE 0]>>
                            ELSE <<>>,
                            <<>>)
            /\ UNCHANGED <<options, cur, mws, reqs>>

\* tenants[key].detachDatabase() on collection g
CallDetachDatabase(g, key) ==
    \E throws \in BOOLEAN :
        LET r == DetachDatabase(colls[g].recs[key], throws)
            threw == r.err = "FinalizerError"
        IN  /\ threw => failures < MaxFailures
            /\ throws => threw
            /\ colls' = [colls EXCEPT ![g].recs[key] = r.tenant]
            /\ finCount' = Counted(finCount, r.finalized, 1)
            /\ failures' = IF threw THEN failures + 1 ELSE failures
            /\ last' = Call("detachDatabase", r.err, g, key, colls[g], <<>>, r.finalized)
            /\ UNCHANGED <<options, cur, mws, reqs, created>>

NextDb ==
    \/ CallLoadTenants
    \/ \E g \in 1..Len(colls) : CallAttachDatabases(g)
    \/ \E g \in 0..Len(colls) : CallDetachDatabases(g)
    \/ \E g \in 1..Len(colls) : \E key \in OwnKeys(colls[g]) : CallAttachDatabase(g, key)
    \/ \E g \in 1..Len(colls) : \E key \in OwnKeys(colls[g]) : CallDetachDatabase(g, key)

SpecDb == InitDb /\ [][NextDb]_vars

(***************************************************************************)
(* The Express specification: one ExpressLandlord instance (lib/           *)
(* express-landlord.js), its use() and cleanup() called in any order, and  *)
(* requests that pass through a middleware use() returned and then reach   *)
(* the route handler.  A middleware is the collection its closure holds.   *)
(* Requests alike in every field are one.  A request is [mw, hostname,     *)
(* header, outcome, prop, bound, handled, seen, had, cleaned]: the         *)
(* middleware it went through, its host name and the value of its tenant   *)
(* header ("" when it has none), how the binder called next, the property  *)
(* the binder set and what it set it to, whether the route handler has run *)
(* and the handle it read.  had and cleaned are kept by the in-flight      *)
(* specification only: the handle the bound record held when the binder    *)
(* ran, and whether a cleanup() returned normally between the binder and   *)
(* the route handler.                                                      *)
(***************************************************************************)
MaxUses == 2
MaxRequests == 2

\* options.req as the caller passes it, "" for an omitted path or tenantHeader
RawReqs ==
    {[present |-> FALSE, path |-> "", tenantHeader |-> ""],
     [present |-> TRUE, path |-> "", tenantHeader |-> ""],
     [present |-> TRUE, path |-> "site", tenantHeader |-> ""],
     [present |-> TRUE, path |-> "", tenantHeader |-> "x-tenant"]}

\* constructor(options): the options with req.path defaulted
ExpressLandlord(opts) ==
    [opts EXCEPT !.req =
        [path |-> IF ~opts.req.present \/ opts.req.path = "" THEN "tenant"
                  ELSE opts.req.path,
         tenantHeader |-> IF opts.req.present THEN opts.req.tenantHeader ELSE ""]]

ExpressDataSeqs ==
    {<<>>,
     <<[name |-> "t1", config |-> Cfg1]>>,
     <<[name |-> SentinelName, config |-> Cfg5], [name |-> "t1", config |-> Cfg2]>>,
     <<[name |-> "t1", config |-> Cfg1], [name |-> "t2", config |-> Cfg4]>>,
     <<[name |-> "undefined", config |-> Cfg1]>>}

ExpressProviders ==
    {[kind |-> "absent"]}
        \cup {[kind |-> "single", p |-> [kind |-> "memory", data |-> data]] :
                 data \in ExpressDataSeqs}

\* the providers tried with every form of options.req
ExpressFewProviders ==
    {[kind |-> "single", p |-> [kind |-> "memory", data |-> data]] :
        data \in {<<[name |-> "undefined", config |-> Cfg1]>>,
                  <<[name |-> SentinelName, config |-> Cfg5],
                    [name |-> "t1", config |-> Cfg2]>>}}

\* every provider with and without db options, and a few providers with
\* complete db options and every form of options.req
InitExpress ==
    /\ \/ \E providers \in ExpressProviders, db \in {DbComplete, NoDb} :
             options = ExpressLandlord([providers |-> providers, db |-> db,
                                        req |-> [present |-> FALSE, path |-> "",
                                                 tenantHeader |-> ""]])
       \/ \E providers \in ExpressFewProviders, req \in RawReqs :
             options = ExpressLandlord([providers |-> providers, db |-> DbComplete,
                                        req |-> req])
    /\ InitRest

\* use(): loadTenants, this._tenants assigned, attachDatabases, the middleware
\* returned.  A throw of loadTenants leaves this._tenants as it was, a throw of
\* attachDatabases leaves it assigned and no middleware is returned.
Use ==
    /\ Len(colls) < MaxUses
    /\ LET l == LoadTenants(options)
           g == Len(colls) + 1
       IN  IF l.err # "none"
           THEN /\ last' = Call("use", l.err, 0, "", NewCollection, <<>>, <<>>)
                /\ UNCHANGED <<colls, cur, mws, created, finCount, failures>>
           ELSE \E failAt \in 0..Len(l.coll.keys) :
                   LET r == AttachDatabases(l.coll, options, created, failAt)
                       threw == r.err = "FactoryError"
                   IN  /\ r.created <= MaxHandles
                       /\ threw => failures < MaxFailures
                       /\ failAt > 0 => threw
                       /\ colls' = Append(colls, r.coll)
                       /\ cur' = g
                       /\ mws' = IF r.err = "none" THEN mws \cup {g} ELSE mws
                       /\ created' = r.created
                       /\ finCount' = Extended(finCount, r.created)
                       /\ failures' = IF threw THEN failures + 1 ELSE failures
                       /\ last' = Call("use", r.err, g, "", l.coll, r.calls, <<>>)
    /\ UNCHANGED <<options, reqs>>

\* request q after a cleanup() that returned normally: marked when the binder
\* has bound it and its route handler has not run yet
InFlightCleaned(q) ==
    IF q.outcome = "next" /\ ~q.handled THEN [q EXCEPT !.cleaned = TRUE] ELSE q

\* cleanup(): nothing when this._tenants has no key, else detachDatabases;
\* with track, the requests in flight are marked when it returns normally
CleanupCall(track) ==
    /\ IF Len(Coll(cur).keys) = 0
       THEN /\ last' = Call("cleanup", "none", cur, "", Coll(cur), <<>>, <<>>)
            /\ reqs' = IF track THEN {InFlightCleaned(q) : q \in reqs} ELSE reqs
            /\ UNCHANGED <<colls, finCount, failures>>
       ELSE \E failAt \in 0..Len(colls[cur].keys) :
               LET r == DetachDatabases(colls[cur], failAt)
                   threw == r.err = "FinalizerError"
               IN  /\ threw => failures < MaxFailures
                   /\ failAt > 0 => threw
                   /\ colls' = [colls EXCEPT ![cur] = r.coll]
                   /\ finCount' = Counted(finCount, r.fins, 1)
                   /\ failures' = IF threw THEN failures + 1 ELSE failures
                   /\ last' = Call("cleanup", r.err, cur, "", colls[cur], <<>>, r.fins)
                   /\ reqs' = IF track /\ ~threw THEN {InFlightCleaned(q) : q \in reqs}
                              ELSE reqs
    /\ UNCHANGED <<options, cur, mws, created>>

Cleanup == CleanupCall(FALSE)

NoBound == [kind |-> "undefined", coll |-> 0, key |-> ""]

NewRequest(g, hostname, header) ==
    [mw |-> g, hostname |-> hostname, header |-> header, outcome |-> "none",
     prop |-> "", bound |-> NoBound, handled |-> FALSE, seen |-> 0,
     had |-> 0, cleaned |-> FALSE]

\* the lookup key: req.hostname, or req.header(options.req.tenantHeader)
TenantKey(req) ==
    IF options.req.tenantHeader = "" THEN req.hostname ELSE req.header

\* tenants[tenant]: the property key of a value.  req.header(name) is
\* undefined for a header the request does not carry ("" here), and the key of
\* undefined is the string 'undefined'
PropertyKey(tenant) == IF tenant = "" THEN "undefined" ELSE tenant

BindTenantToRequest_Cached(g, req) ==
    LET tenant == IF reqs = {} THEN TenantKey(req)
                  ELSE TenantKey(CHOOSE q \in reqs : TRUE)
        found == Lookup(colls[g], PropertyKey(tenant))
    IN  IF found.kind = "undefined" THEN [req EXCEPT !.outcome = "403"]
        ELSE [req EXCEPT !.outcome = "next",
                         !.prop = options.req.path,
                         !.bound = [kind |-> found.kind, coll |-> g,
                                    key |-> PropertyKey(tenant)]]

BindTenantToRequest_SkipSentinel(g, req) ==
    LET tenant == TenantKey(req)
        found == Lookup(colls[g], PropertyKey(tenant))
    IN  IF found.kind = "undefined" \/ tenant = SentinelName
        THEN [req EXCEPT !.outcome = "403"]
        ELSE [req EXCEPT !.outcome = "next",
                         !.prop = options.req.path,
                         !.bound = [kind |-> found.kind, coll |-> g,
                                    key |-> PropertyKey(tenant)]]

\* bindTenantToRequest(req, res, next) of the middleware over collection g:
\* next(httpError(403)) when tenants[tenant] is falsy, else req[path] is set to
\* tenants[tenant] (the record itself, or the built-in found) and next()
BindTenantToRequest(g, req) ==
    LET tenant == TenantKey(req)
        found == Lookup(colls[g], PropertyKey(tenant))
    IN  IF found.kind = "undefined" THEN [req EXCEPT !.outcome = "403"]
        ELSE [req EXCEPT !.outcome = "next",
                         !.prop = options.req.path,
                         !.bound = [kind |-> found.kind, coll |-> g,
                                    key |-> PropertyKey(tenant)]]

\* the host name and the tenant header value of a request
RequestInputs ==
    {[hostname |-> "t1", header |-> ""],
     [hostname |-> "unknown", header |-> "t1"],
     [hostname |-> "constructor", header |-> "__proto__"]}

\* a request arrives at the middleware over collection g; with track, the
\* handle the bound record holds at this moment is noted
Arrival(g, in, track) ==
    /\ Cardinality(reqs) < MaxRequests
    /\ LET req == BindTenantToRequest(g, NewRequest(g, in.hostname, in.header))
           had == IF track /\ req.bound.kind = "tenant"
                  THEN Lookup(colls[g], req.bound.key).rec.db ELSE 0
       IN  reqs' = reqs \cup {[req EXCEPT !.had = had]}
    /\ UNCHANGED <<options, colls, cur, mws, created, finCount, failures, last>>

Request(g, in) == Arrival(g, in, FALSE)

\* the route handler of request q, reached through next() only: it reads
\* req[path].db (absent for a built-in, which has no db)
Handler(q) ==
    /\ q.outcome = "next"
    /\ ~q.handled
    /\ LET b == q.bound
           db == IF b.kind = "tenant" THEN Lookup(colls[b.coll], b.key).rec.db ELSE 0
       IN  reqs' = (reqs \ {q}) \cup {[q EXCEPT !.handled = TRUE, !.seen = db]}
    /\ UNCHANGED <<options, colls, cur, mws, created, finCount, failures, last>>

NextExpress ==
    \/ Use
    \/ Cleanup
    \/ \E g \in mws, in \in RequestInputs : Request(g, in)
    \/ \E q \in reqs : Handler(q)

SpecExpress == InitExpress /\ [][NextExpress]_vars

(***************************************************************************)
(* The in-flight specification: the same instance with complete db         *)
(* options and requests by host name, the sentinel's name among them; each *)
(* request keeps the handle its record held when the binder ran, and       *)
(* whether a cleanup() returned normally before its route handler ran.     *)
(***************************************************************************)
FlightDataSeqs ==
    {<<[name |-> SentinelName, config |-> Cfg5], [name |-> "t1", config |-> Cfg2]>>,
     <<[name |-> SentinelName, config |-> Cfg3], [name |-> "t1", config |-> Cfg1]>>,
     <<[name |-> "t1", config |-> Cfg1]>>}

InitInFlight ==
    /\ \E data \in FlightDataSeqs :
          options = ExpressLandlord([providers |-> [kind |-> "single",
                                                   p |-> [kind |-> "memory", data |-> data]],
                                     db |-> DbComplete,
                                     req |-> [present |-> FALSE, path |-> "",
                                              tenantHeader |-> ""]])
    /\ InitRest

\* the host names of the requests
FlightInputs ==
    {[hostname |-> SentinelName, header |-> ""],
     [hostname |-> "unknown", header |-> ""]}

TrackedCleanup == CleanupCall(TRUE)

TrackedRequest(g, in) == Arrival(g, in, TRUE)

NextInFlight ==
    \/ Use
    \/ TrackedCleanup
    \/ \E g \in mws, in \in FlightInputs : TrackedRequest(g, in)
    \/ \E q \in reqs : Handler(q)

SpecInFlight == InitInFlight /\ [][NextInFlight]_vars

(***************************************************************************)
(* The sources specification: Landlord.loadTenants on options whose        *)
(* providers are absent, one provider, or an array of up to MaxSources     *)
(* entries, each an InMemoryData provider, an object without loadTenants,  *)
(* or null.                                                                *)
(***************************************************************************)
MaxSources == 3

SourceEntries ==
    {[kind |-> "memory", data |-> <<>>],
     [kind |-> "memory", data |-> <<[name |-> "t1", config |-> Cfg1]>>],
     [kind |-> "memory", data |-> <<[name |-> "t2", config |-> Cfg2]>>],
     [kind |-> "memory", data |-> <<[name |-> "t1", config |-> V(0)]>>],
     [kind |-> "object"],
     [kind |-> "null"]}

\* options.providers: absent (or null), one provider, or an array
SourceOptions ==
    {[kind |-> "absent"]}
        \cup {[kind |-> "single", p |-> p] : p \in SourceEntries \ {[kind |-> "null"]}}
        \cup {[kind |-> "array", ps |-> ps] :
                 ps \in UNION {[1..n -> SourceEntries] : n \in 0..MaxSources}}

InitSources ==
    /\ \E providers \in SourceOptions :
          options = [providers |-> providers, db |-> NoDb, req |-> NoReq]
    /\ InitRest

NextSources == CallLoadTenants

SpecSources == InitSources /\ [][NextSources]_vars

(***************************************************************************)
(* The providers specification: one provider, an InMemoryData over one     *)
(* record or a list of at most MaxRecords records, or a FileSystem whose   *)
(* globs resolve to at most MaxFiles files; its loadTenants is called      *)
(* directly, and by Landlord.loadTenants.                                  *)
(***************************************************************************)
MaxFiles == 2

\* {name, config} records, also without name ("") and without config
MemoryRecords == [name : {"t1", "t2", ""}, config : {Cfg1, Cfg0, Undefined}]

MemoryTenants ==
    {[kind |-> "one", rec |-> r] : r \in MemoryRecords}
        \cup {[kind |-> "list", recs |-> recs] :
                 recs \in UNION {[1..n -> MemoryRecords] : n \in 0..MaxRecords}}

FileNames ==
    {<<"t1", ".tenant">>, <<"T1", ".TENANT">>, <<".tenant">>, <<"t2">>,
     <<"my", ".tenant", "s.t1", ".tenant">>}
Files == [name : FileNames, content : {Cfg1, [t |-> "invalid"]}]

FileSystem(files) == [kind |-> "files", files |-> files]

InitProviders ==
    /\ \/ \E tenants \in MemoryTenants :
             options = [providers |-> [kind |-> "single", p |-> InMemoryData(tenants)],
                        db |-> NoDb, req |-> NoReq]
       \/ \E files \in UNION {[1..n -> Files] : n \in 0..MaxFiles} :
             options = [providers |-> [kind |-> "single", p |-> FileSystem(files)],
                        db |-> NoDb, req |-> NoReq]
    /\ InitRest

\* provider.loadTenants() called by the caller itself
CallProviderLoadTenants ==
    /\ last.op # "provider.loadTenants"
    /\ LET r == ProviderLoad(options.providers.p)
       IN  last' = [Call("provider.loadTenants", r.err, 0, "", NewCollection, <<>>, <<>>)
                      EXCEPT !.ret = r.tenants, !.logs = r.logs]
    /\ UNCHANGED <<options, colls, cur, mws, reqs, created, finCount, failures>>

NextProviders == CallProviderLoadTenants \/ CallLoadTenants

SpecProviders == InitProviders /\ [][NextProviders]_vars

(***************************************************************************)
(* The defaults specification: one tenant loaded from an InMemoryData, and *)
(* tenant.applyDefaults called on it any number of times with any default. *)
(* A tenant's config is any truthy value, a default any value at all.      *)
(***************************************************************************)
TenantConfigs == {Cfg0, Cfg1, Cfg2, Cfg3, Cfg4, Cfg5, V(1)}
DefaultConfigs == TenantConfigs \cup {V(0), Undefined}

InitDefaults ==
    /\ \E config \in TenantConfigs :
          options = DbOptions(<<[name |-> "t1", config |-> config]>>, NoDb)
    /\ InitRest

\* tenants[key].applyDefaults(defaultConfig) on collection g
CallApplyDefaults(g, key, defaultConfig) ==
    /\ colls' = [colls EXCEPT ![g].recs[key] = ApplyDefaults(@, defaultConfig)]
    /\ last' = Call("applyDefaults", "none", g, key, colls[g],
                    <<[key |-> key, arg |-> defaultConfig, handle |-> 0]>>, <<>>)
    /\ UNCHANGED <<options, cur, mws, reqs, created, finCount, failures>>

NextDefaults ==
    \/ CallLoadTenants
    \/ \E g \in 1..Len(colls) : \E key \in OwnKeys(colls[g]) :
          \E defaultConfig \in DefaultConfigs : CallApplyDefaults(g, key, defaultConfig)

SpecDefaults == InitDefaults /\ [][NextDefaults]_vars

(***************************************************************************)
(* The isolation specification: loadTenants over one InMemoryData provider *)
(* of at most MaxTenants records, among their names __proto__ and the name *)
(* of a field of a Tenant, among their configs one with a key 'config'.    *)
(***************************************************************************)
MaxTenants == 2

Cfg6 == O(("x" :> V(2)) @@ ("config" :> O("y" :> V(3))))

IsolationNames == {SentinelName, "t1", "__proto__", "_config"}
IsolationConfigs == {Cfg1, Cfg3, Cfg6}
IsolationData == [name : IsolationNames, config : IsolationConfigs]

InitIsolation ==
    /\ \E data \in UNION {[1..n -> IsolationData] : n \in 0..MaxTenants} :
          options = DbOptions(data, NoDb)
    /\ InitRest

NextIsolation == CallLoadTenants

SpecIsolation == InitIsolation /\ [][NextIsolation]_vars

(***************************************************************************)
(* What the claims about loadTenants speak of.                             *)
(***************************************************************************)
\* the {name, config} records of all providers, in load order
RECURSIVE Flatten(_, _)
Flatten(providers, i) ==
    IF i > Len(providers) THEN <<>>
    ELSE providers[i].data \o Flatten(providers, i + 1)

AllData == Flatten(ProviderList(options), 1)
ProducedNames == {AllData[i].name : i \in 1..Len(AllData)}

RECURSIVE ConfigsOf(_, _, _)
ConfigsOf(data, name, i) ==
    IF i > Len(data) THEN <<>>
    ELSE (IF data[i].name = name THEN <<data[i].config>> ELSE <<>>)
             \o ConfigsOf(data, name, i + 1)

\* the configs loaded for one tenant name, in load order
Layers(name) == ConfigsOf(AllData, name, 1)

\* deep merge of two mappings: hi wins on a conflict, two objects under one key
\* are merged key by key, a key of only one side is carried through
RECURSIVE Overlay(_, _)
Overlay(lo, hi) ==
    [k \in (DOMAIN lo) \cup (DOMAIN hi) |->
        IF k \notin DOMAIN hi THEN lo[k]
        ELSE IF k \notin DOMAIN lo THEN hi[k]
        ELSE IF IsObject(lo[k]) /\ IsObject(hi[k]) THEN O(Overlay(lo[k].m, hi[k].m))
        ELSE hi[k]]

RECURSIVE InLoadOrder(_, _)
InLoadOrder(layers, n) ==
    IF n = 1 THEN layers[1]
    ELSE O(Overlay(InLoadOrder(layers, n - 1).m, layers[n].m))

\* the configs of one name merged in load order, the later one on top
Merged(name) == InLoadOrder(Layers(name), Len(Layers(name)))

Loaded == last.op = "loadTenants" /\ last.err = "none"
Result == colls[last.coll]
HasSentinel == SentinelName \in OwnKeys(Result)

\* C1: a tenant name produced more than once resolves to one record whose
\* config is the deep merge of its configs in load order, the later-loaded
\* value winning every conflict (stated where no default layer is added on
\* top: a collection without the sentinel, and the sentinel's own record).
C1_MergeDirection ==
    Loaded =>
        \A name \in OwnKeys(Result) :
            (~HasSentinel \/ name = SentinelName)
                => Result.recs[name].config = Merged(name)

C1_Witness ==
    /\ Loaded
    /\ ~HasSentinel
    /\ Len(ProviderList(options)) = 3
    /\ Layers("t1") = <<Cfg1, Cfg2, Cfg3>>
    /\ Result.recs["t1"].config =
          O(("x" :> V(2)) @@ ("y" :> V(3)) @@ ("env" :> V(0)))

\* r is d beneath c: c's value wins on every key of both, d fills the keys c lacks
RECURSIVE Beneath(_, _, _)
Beneath(r, d, c) ==
    /\ DOMAIN r = (DOMAIN d) \cup (DOMAIN c)
    /\ \A k \in DOMAIN r :
          IF k \notin DOMAIN c THEN r[k] = d[k]
          ELSE IF k \notin DOMAIN d THEN r[k] = c[k]
          ELSE IF IsObject(d[k]) /\ IsObject(c[k])
               THEN IsObject(r[k]) /\ Beneath(r[k].m, d[k].m, c[k].m)
               ELSE r[k] = c[k]

\* C2: with a sentinel record, every other record's config is the sentinel's
\* config beneath the record's own; without one, every config is as loaded.
C2_DefaultsBeneath ==
    Loaded =>
        IF HasSentinel
        THEN \A name \in OwnKeys(Result) \ {SentinelName} :
                Beneath(Result.recs[name].config.m,
                        Result.recs[SentinelName].config.m,
                        Merged(name).m)
        ELSE \A name \in OwnKeys(Result) :
                Len(Layers(name)) = 1 => Result.recs[name].config = Layers(name)[1]

C2_Witness ==
    /\ Loaded
    /\ Layers(SentinelName) = <<Cfg1>>
    /\ Layers("t1") = <<Cfg2>>
    /\ Result.recs["t1"].config =
          O(("x" :> V(2)) @@ ("y" :> V(3))
              @@ ("env" :> O(("db" :> V(1)) @@ ("url" :> V(1)))))

\* C4: sources that produce at least one record yield a collection with one
\* key per distinct tenant name.
C4_OneKeyPerName ==
    (last.op = "loadTenants" /\ AllData # <<>>) =>
        /\ last.err = "none"
        /\ Len(Result.keys) = Cardinality(ProducedNames)

\* C5: when every source returns no record, loadTenants fails with
\* NoTenantsFound and returns no collection.
C5_NoTenantsFound ==
    (last.op = "loadTenants" /\ AllData = <<>>) =>
        last.err = "NoConfigs" /\ colls = <<>> /\ last.coll = 0

C5_Witness ==
    /\ last.op = "loadTenants"
    /\ last.err = "NoConfigs"
    /\ Len(ProviderList(options)) = 2
    /\ AllData = <<>>

(***************************************************************************)
(* What the claims about attaching and detaching speak of.                 *)
(***************************************************************************)
Before == last.pre
After == Coll(last.coll)
Handles(coll) == {coll.recs[k].db : k \in OwnKeys(coll)} \ {0}
Returned == last.err = "none"

\* the records of a collection that hold a handle
Holding(coll) == {k \in OwnKeys(coll) : coll.recs[k].db # 0}

\* the number of positions of a sequence that hold x
Occurrences(seq, x) == Cardinality({i \in 1..Len(seq) : seq[i] = x})

\* the value a config has at a path of keys, Undefined when a key of the
\* path is missing or is looked up in something that is not an object
RECURSIVE ValueAt(_, _)
ValueAt(config, path) ==
    IF path = <<>> THEN config
    ELSE IF config.t = "obj" /\ Head(path) \in DOMAIN config.m
         THEN ValueAt(config.m[Head(path)], Tail(path))
         ELSE Undefined

HasValue(x) == x # Undefined
IsTruthy(x) == x.t = "obj" \/ (x.t = "val" /\ x.v # 0)

\* C6: an attach on a record that holds a handle fails with AlreadyAttached,
\* the factory is not invoked for that record and its handle and finalizer
\* stay as they were; attachDatabases on a collection as a completed
\* attachDatabases left it (every record with a db config holding a handle)
\* fails with AlreadyAttached without a factory call and changes nothing.
C6_AlreadyAttached ==
    /\ (last.op = "attachDatabase" /\ last.key \in Holding(Before)) =>
          /\ last.err = "AlreadyAttached"
          /\ last.calls = <<>>
          /\ After = Before
    /\ (last.op = "attachDatabases" /\ last.err = "AlreadyAttached") =>
          /\ \A i \in 1..Len(last.calls) : last.calls[i].key \notin Holding(Before)
          /\ \A k \in Holding(Before) : After.recs[k] = Before.recs[k]
    /\ (/\ last.op = "attachDatabases"
        /\ options.db = DbComplete
        /\ \E k \in Holding(Before) : Truthy(Get(Before.recs[k].config, DbPath, 1))
        /\ \A k \in OwnKeys(Before) :
              Truthy(Get(Before.recs[k].config, DbPath, 1)) => k \in Holding(Before)) =>
          /\ last.err = "AlreadyAttached"
          /\ last.calls = <<>>
          /\ After = Before

\* attachDatabases run a second time on a collection of two attached records
C6_Witness ==
    /\ last.op = "attachDatabases"
    /\ last.err = "AlreadyAttached"
    /\ last.calls = <<>>
    /\ Cardinality(Holding(Before)) = 2
    /\ created = 2
    /\ failures = 0

\* C7: a detach that returns leaves every record it covers without handle
\* and finalizer, has passed each handle the record held, a handle the
\* factory returned, to the finalizer once (once in all when no call has
\* thrown), and an attach on a record without a handle succeeds unless the
\* factory throws, storing the factory's new handle.
C7_RoundTrip ==
    /\ (last.op = "detachDatabase" /\ Returned) =>
          LET h == Before.recs[last.key].db
          IN  /\ After.recs[last.key].db = 0
              /\ After.recs[last.key].dbFinalizer = 0
              /\ h # 0 =>
                    /\ last.fins = <<h>>
                    /\ h \in 1..created
                    /\ failures = 0 => finCount[h] = 1
    /\ (last.op = "detachDatabases" /\ Returned) =>
          /\ Holding(After) = {}
          /\ \A k \in OwnKeys(After) : After.recs[k].dbFinalizer = 0
          /\ \A h \in Handles(Before) :
                /\ Occurrences(last.fins, h) = 1
                /\ h \in 1..created
                /\ failures = 0 => finCount[h] = 1
    /\ (last.op = "attachDatabase" /\ last.key \notin Holding(Before)) =>
          /\ Len(last.calls) = 1
          /\ last.err \in {"none", "FactoryError"}
          /\ Returned =>
                /\ After.recs[last.key].db = created
                /\ After.recs[last.key].db = last.calls[1].handle
                /\ After.recs[last.key].dbFinalizer # 0
                /\ finCount[created] = 0

\* attach, detach, attach again on the one record of a collection
C7_Witness ==
    /\ last.op = "attachDatabase"
    /\ Returned
    /\ failures = 0
    /\ Len(After.keys) = 1
    /\ created = 2
    /\ finCount = <<1, 0>>
    /\ After.recs[last.key].db = 2

\* C8: a detach of a record without a handle returns, passes nothing to the
\* finalizer and leaves the handle absent; detachDatabases passes to the
\* finalizer only handles the collection held, each at most once, and on a
\* collection without a handle (an empty one, a never attached one, one a
\* detachDatabases has just returned from) it returns without a finalizer
\* call; while no call has thrown no handle has been finalized twice.
C8_DetachNoOp ==
    /\ (last.op = "detachDatabase" /\ last.key \notin Holding(Before)) =>
          /\ Returned
          /\ last.fins = <<>>
          /\ After.recs[last.key].db = 0
    /\ last.op = "detachDatabases" =>
          /\ \A i \in 1..Len(last.fins) :
                /\ last.fins[i] \in Handles(Before)
                /\ Occurrences(last.fins, last.fins[i]) = 1
          /\ Holding(Before) = {} =>
                /\ Returned
                /\ last.fins = <<>>
                /\ Holding(After) = {}
    /\ failures = 0 => \A h \in 1..Len(finCount) : finCount[h] <= 1

\* detachDatabases run again after a detachDatabases that finalized two handles
C8_Witness ==
    /\ last.op = "detachDatabases"
    /\ Returned
    /\ last.coll # 0
    /\ Holding(Before) = {}
    /\ last.fins = <<>>
    /\ finCount = <<1, 1>>
    /\ failures = 0

\* db options that lack one of factory, finalizer and configPath, or all
Incomplete(db) ==
    ~db.present \/ ~db.factory \/ ~db.finalizer \/ db.configPath = <<>>

\* C9: with db options that do not supply factory, finalizer and configPath
\* together, attachDatabases returns without a factory call and leaves every
\* record as it was; no handle is ever created by it.
C9_AttachSkipped ==
    (last.op = "attachDatabases" /\ Incomplete(options.db)) =>
        /\ Returned
        /\ last.calls = <<>>
        /\ After = Before

\* a finalizer is missing and a record has a value at env.db
C9_Witness ==
    /\ last.op = "attachDatabases"
    /\ options.db.present
    /\ options.db.factory
    /\ ~options.db.finalizer
    /\ options.db.configPath = <<"env", "db">>
    /\ "t1" \in OwnKeys(After)
    /\ ValueAt(After.recs["t1"].config, <<"env", "db">>) = V(1)
    /\ After.recs["t1"].db = 0

\* the value of a record of the collection a call was given, at configPath
ValueOf(k) == ValueAt(Before.recs[k].config, options.db.configPath)

\* attachDatabases with complete db options has returned from a collection
\* that held no handle
AttachedAll ==
    /\ last.op = "attachDatabases"
    /\ Returned
    /\ ~Incomplete(options.db)
    /\ Holding(Before) = {}

\* the records of the set due hold a handle each, the others none; the
\* factory was called once for each record of due, in the collection's
\* order, with the record's value at configPath, and the record holds what
\* that call returned; no config has changed
AttachedExactly(due) ==
    LET sel == SelectSeq(Before.keys, LAMBDA k : k \in due)
    IN  /\ Holding(After) = due
        /\ Len(last.calls) = Len(sel)
        /\ \A i \in 1..Len(sel) :
              /\ last.calls[i].key = sel[i]
              /\ last.calls[i].arg = ValueOf(sel[i])
              /\ last.calls[i].handle = After.recs[sel[i]].db
        /\ \A k \in OwnKeys(After) : After.recs[k].config = Before.recs[k].config

\* C10, as stated: after attachDatabases returns, a record holds a handle
\* exactly when its config has a value at configPath, and the factory was
\* called once per such record with that value.
C10_AttachedIffValue == AttachedAll => AttachedExactly({k \in OwnKeys(Before) : HasValue(ValueOf(k))})

\* C10, amended: after attachDatabases returns, a record (the sentinel
\* included) holds a handle exactly when its config has a truthy value at
\* configPath; the factory was called once per such record with that value;
\* a record whose value is missing or falsy is skipped, and a path through a
\* missing key or a scalar is a missing value, not an error.
C10_AttachedIffTruthy ==
    /\ AttachedAll => AttachedExactly({k \in OwnKeys(Before) : IsTruthy(ValueOf(k))})
    /\ (last.op = "attachDatabases" /\ ~Incomplete(options.db)) =>
          last.err \in {"none", "FactoryError", "AlreadyAttached"}
    /\ (last.op = "attachDatabases" /\ ~Incomplete(options.db)
            /\ Holding(Before) = {} /\ failures = 0) => Returned

\* the sentinel has an object at env.db and is attached with it; t1's env is
\* a scalar, so the path ends early and t1 is skipped
C10_Witness ==
    /\ AttachedAll
    /\ After.keys = <<SentinelName, "t1">>
    /\ ValueAt(After.recs["t1"].config, <<"env">>) = V(0)
    /\ After.recs["t1"].db = 0
    /\ After.recs[SentinelName].db = 1
    /\ last.calls = <<[key |-> SentinelName, arg |-> O("client" :> V(2)), handle |-> 1]>>

(***************************************************************************)
(* What the claims about the binder speak of.                              *)
(***************************************************************************)
\* the lookup key of request q matches a record of its middleware's collection
Matches(q) == TenantKey(q) \in OwnKeys(colls[q.mw])

\* C3: for every request the binder does one of two things: when the lookup
\* key matches no record it signals 403, sets nothing on the request and no
\* handler runs for it; when the key matches it sets the configured request
\* property to that key's record and proceeds to the handlers.
C3_BindOrReject ==
    \A q \in reqs :
            IF Matches(q)
            THEN /\ q.outcome = "next"
                 /\ q.prop = options.req.path
                 /\ q.bound = [kind |-> "tenant", coll |-> q.mw, key |-> TenantKey(q)]
            ELSE /\ q.outcome = "403"
                 /\ q.prop = ""
                 /\ q.bound = NoBound
                 /\ ~q.handled

\* C11: a cleanup() that finds no record holding a handle returns without a
\* finalizer call, and that is what it finds when use() was never called or
\* failed while loading (this._tenants still {}) and when use() ran without
\* complete db options.
C11_CleanupWithoutResources ==
    last.op = "cleanup" =>
        /\ (cur = 0 \/ Incomplete(options.db)) => Holding(Before) = {}
        /\ Holding(Before) = {} =>
              /\ Returned
              /\ last.fins = <<>>
              /\ After = Before
        /\ Incomplete(options.db) => \A h \in 1..Len(finCount) : finCount[h] = 0

\* cleanup() after a use() without db options loaded two tenants
C11_Witness ==
    /\ last.op = "cleanup"
    /\ Returned
    /\ cur = 1
    /\ options.db = NoDb
    /\ Len(After.keys) = 2
    /\ last.fins = <<>>

\* the key the binder is to use: the tenant header's value when a tenant
\* header is configured, the host name when none is
SelectedKey(q) == IF options.req.tenantHeader # "" THEN q.header ELSE q.hostname

\* C12: with options.req.tenantHeader configured the binder looks up the value
\* of that header only, and rejects with 403 a request that lacks the header
\* whatever its host name; without it the binder looks up the host name.
C12_KeySelection ==
    \A q \in reqs :
            /\ SelectedKey(q) \in OwnKeys(colls[q.mw]) =>
                  /\ q.outcome = "next"
                  /\ q.bound = [kind |-> "tenant", coll |-> q.mw, key |-> SelectedKey(q)]
            /\ q.outcome = "next" => q.bound.key = SelectedKey(q)
            /\ (options.req.tenantHeader # "" /\ q.header = "") => q.outcome = "403"

(***************************************************************************)
(* What the claims about the validation of the sources speak of.           *)
(***************************************************************************)
Sources == options.providers

\* C13: when sources is absent or an empty list, loadTenants fails with
\* InvalidArgument (the missing-providers error) and consults no source.
C13_NoSources ==
    (last.op = "loadTenants"
        /\ (Sources.kind = "absent" \/ (Sources.kind = "array" /\ Sources.ps = <<>>))) =>
        /\ last.err = "MissingProviders"
        /\ last.consulted = 0
        /\ colls = <<>>

\* an entry of sources that has no loadTenants operation
Offending(p) == p.kind \in {"object", "null"}

\* C14: when an entry of sources has no loadTenants operation (a null entry
\* included), loadTenants fails with InvalidArgument (the provider error)
\* and has called loadTenants on no source.
C14_InvalidSource ==
    (last.op = "loadTenants" /\ Sources.kind # "absent"
        /\ \E i \in 1..Len(ProviderList(options)) : Offending(ProviderList(options)[i])) =>
        /\ last.err = "ProviderMissingLoadTenants"
        /\ last.consulted = 0
        /\ colls = <<>>

(***************************************************************************)
(* What the claims about a failing finalizer speak of.                     *)
(***************************************************************************)
\* C15: after a detach call on a record, whether the finalizer returned or
\* threw, the record holds neither handle nor finalizer, and a finalizer
\* that threw is reported as the call's error.
C15_DetachAlwaysClears ==
    last.op = "detachDatabase" =>
        /\ After.recs[last.key].db = 0
        /\ After.recs[last.key].dbFinalizer = 0

\* C16: detachDatabases passes the handle of every record that held one to
\* the finalizer and leaves every record without a handle whose finalizer
\* did not throw, also when the finalizer throws for another record.
C16_DetachAllDespiteFailure ==
    last.op = "detachDatabases" =>
        \A k \in Holding(Before) :
            /\ Occurrences(last.fins, Before.recs[k].db) = 1
            /\ (last.err = "none" \/ Before.recs[k].db # last.fins[Len(last.fins)]) =>
                  After.recs[k].db = 0

(***************************************************************************)
(* What the claims about the providers speak of.                           *)
(***************************************************************************)
Provider == options.providers.p
ProviderCalled == last.op = "provider.loadTenants"

\* the provider has nothing to load: no file matches, or an empty tenant list
ZeroResults ==
    \/ Provider.kind = "files" /\ Provider.files = <<>>
    \/ Provider.kind = "memory" /\ Provider.tenants = [kind |-> "list", recs |-> <<>>]

\* C17: a provider that finds nothing (a FileSystem none of whose patterns
\* matches a file, an InMemoryData given an empty list) does not fail: its
\* loadTenants logs one line and returns an empty sequence; that there is no
\* tenant is decided by Landlord.loadTenants, which then fails.
C17_ZeroResults ==
    /\ (ProviderCalled /\ ZeroResults) =>
          /\ Returned
          /\ last.ret = <<>>
          /\ Len(last.logs) = 1
    /\ (last.op = "loadTenants" /\ ZeroResults) =>
          last.err = "NoConfigs" /\ last.consulted = 1

C17_Witness ==
    /\ ProviderCalled
    /\ Provider.kind = "files"
    /\ Provider.files = <<>>
    /\ Returned
    /\ last.ret = <<>>
    /\ last.logs = <<"no files found">>

\* the records an InMemoryData was given, as a list
Supplied ==
    IF Provider.tenants.kind = "one" THEN <<Provider.tenants.rec>>
    ELSE Provider.tenants.recs

Lacking(rec) == rec.name = "" \/ rec.config = Undefined

C19_ApplyDefaultsIdempotent ==
    last.op = "applyDefaults" =>
        LET defaultConfig == last.calls[1].arg
            once == After.recs[last.key]
            twice == ApplyDefaults(once, defaultConfig)
        IN  /\ once = ApplyDefaults(Before.recs[last.key], defaultConfig)
            /\ twice.config = once.config
            /\ twice = once

\* a default with an object at env.db applied to a config with env.url
C19_Witness ==
    /\ last.op = "applyDefaults"
    /\ last.calls[1].arg = Cfg5
    /\ Before.recs["t1"].config = Cfg2
    /\ After.recs["t1"].config =
          O(("x" :> V(2)) @@ ("y" :> V(3))
              @@ ("env" :> O(("url" :> V(1)) @@ ("db" :> O("client" :> V(2))))))

(***************************************************************************)
(* What the claim about concurrent requests speaks of.                     *)
(***************************************************************************)
\* what tenants[key] finds for request q in its middleware's collection
FoundAlone(q) == Lookup(colls[q.mw], PropertyKey(TenantKey(q)))

\* every request has the outcome its own key gives with its middleware's
\* collection, and two requests alike in middleware and key fare alike
OutcomeAsAlone ==
    /\ \A q \in reqs :
              IF FoundAlone(q).kind = "undefined"
              THEN q.outcome = "403" /\ q.bound = NoBound /\ q.prop = ""
              ELSE /\ q.outcome = "next"
                   /\ q.prop = options.req.path
                   /\ q.bound = [kind |-> FoundAlone(q).kind, coll |-> q.mw,
                                 key |-> PropertyKey(TenantKey(q))]
    /\ \A q1, q2 \in reqs :
          (q1.mw = q2.mw /\ TenantKey(q1) = TenantKey(q2)) =>
              /\ q1.outcome = q2.outcome
              /\ q1.bound = q2.bound

\* a step of the binder: a request that was not there before is there after
BinderStep == \E q \in reqs' : q \notin reqs /\ ~q.handled /\ ~q.cleaned

\* C20: every step of the binder leaves every collection as it found it (key
\* set, names, configs and handles), and whatever requests came before,
\* between or after and whatever cleanup() or use() did meanwhile, every
\* request has the outcome its own key gives with its middleware's
\* collection: rejected, or bound to what that key finds.
C20_BinderReadOnly ==
    /\ [][BinderStep => colls' = colls]_vars
    /\ []OutcomeAsAlone

\* two requests through two middlewares, one bound and one rejected, with a
\* cleanup() in between or after
C20_Witness ==
    /\ \E q1, q2 \in reqs :
          /\ q1.mw # q2.mw
          /\ q1.outcome = "next"
          /\ q1.handled
          /\ q2.outcome = "403"
    /\ last.op = "cleanup"
    /\ created > 0

(***************************************************************************)
(* What the later claims about loadTenants speak of.                       *)
(***************************************************************************)
\* the default layer: the sentinel's configs merged in load order
DefaultLayer == Merged(SentinelName)

\* C21: after loadTenants the sentinel's config is what the merging of the
\* sources made it, and every other record's config is that one default
\* layer beneath the record's own merged config, wherever the sentinel and
\* the record stand in the collection's iteration order.
C21_SentinelUnchanged ==
    (Loaded /\ HasSentinel) =>
        /\ Result.recs[SentinelName].config = DefaultLayer
        /\ \A name \in OwnKeys(Result) \ {SentinelName} :
              Result.recs[name].config = O(Overlay(DefaultLayer.m, Merged(name).m))

\* two records ahead of the sentinel in iteration order; the sentinel fills
\* the keys each lacks and its own config stays as loaded
C21_Witness ==
    /\ Loaded
    /\ Result.keys = <<"t1", "t2", SentinelName>>
    /\ AllData = <<[name |-> "t1", config |-> Cfg3], [name |-> "t2", config |-> Cfg1],
                   [name |-> SentinelName, config |-> Cfg2]>>
    /\ Result.recs[SentinelName].config = Cfg2
    /\ Result.recs["t1"].config = O(("x" :> V(2)) @@ ("y" :> V(3)) @@ ("env" :> V(0)))
    /\ Result.recs["t2"].config =
          O(("x" :> V(1)) @@ ("y" :> V(3))
              @@ ("env" :> O(("db" :> V(1)) @@ ("url" :> V(1)))))

(***************************************************************************)
(* What the claim about the names of file-backed tenants speaks of.        *)
(***************************************************************************)
\* a base name <tenant-name>.tenant, in any case
HasTenantSuffix(name) == name # <<>> /\ ToLowerCase(name[Len(name)]) = ".tenant"

\* lowercase(<tenant-name>) of the base name <tenant-name>.tenant
NameBeforeSuffix(name) == Join([j \in 1..Len(name) - 1 |-> ToLowerCase(name[j])])

\* C22: the tenant the file-backed source makes of a file <tenant-name>.tenant.<ext>
\* is named lowercase(<tenant-name>), also when <tenant-name> contains '.tenant'.
C22_FileTenantName ==
    (ProviderCalled /\ Provider.kind = "files" /\ Returned) =>
        \A i \in 1..Len(Provider.files) :
            HasTenantSuffix(Provider.files[i].name) =>
                last.ret[i].name = NameBeforeSuffix(Provider.files[i].name)

(***************************************************************************)
(* What the claim about keys and names speaks of.                          *)
(***************************************************************************)
\* in every collection loadTenants returned, the record under key k is named k
KeysAreNames ==
    \A g \in 1..Len(colls) : \A k \in OwnKeys(colls[g]) : colls[g].recs[k].name = k

\* the record the binder attached to request q
BoundRecord(q) == Lookup(colls[q.bound.coll], q.bound.key).rec

\* C23: the record stored under key k has name k, and a record the binder
\* attached to a request has the name that is the request's lookup key.
C23_KeyNameAgreement ==
    /\ KeysAreNames
    /\ \A q \in reqs :
          q.bound.kind = "tenant" => BoundRecord(q).name = TenantKey(q)

(***************************************************************************)
(* What the claim about tenant values and later defaults speaks of.        *)
(***************************************************************************)
\* r keeps every value of c: a scalar of c is in r under the same key, an
\* object of c is an object in r that keeps its values in turn
RECURSIVE Keeps(_, _)
Keeps(r, c) ==
    \A k \in DOMAIN c :
        /\ k \in DOMAIN r
        /\ IF IsObject(c[k]) THEN IsObject(r[k]) /\ Keeps(r[k].m, c[k].m)
           ELSE r[k] = c[k]

\* the provider (by position) that produced the i-th record of AllData
RECURSIVE SourceOf(_, _, _)
SourceOf(providers, i, p) ==
    IF i <= Len(providers[p].data) THEN p
    ELSE SourceOf(providers, i - Len(providers[p].data), p + 1)

\* the sentinel is produced by a source loaded after one that produced name
DefaultLoadedAfter(name) ==
    \E i, j \in 1..Len(AllData) :
        /\ AllData[i].name = name
        /\ AllData[j].name = SentinelName
        /\ SourceOf(ProviderList(options), i, 1) < SourceOf(ProviderList(options), j, 1)

\* C24: every value the sources set for a tenant is in its resolved config,
\* whatever the sentinel sets for the same key and wherever in the source
\* order the sentinel's records come.
C24_TenantBeatsDefault ==
    (Loaded /\ HasSentinel) =>
        \A name \in OwnKeys(Result) \ {SentinelName} :
            Keeps(Result.recs[name].config.m, Merged(name).m)

\* t1 from the second of three sources, the sentinel from the first and,
\* overriding, from the third: t1 keeps its x and gets y from the later layer
C24_Witness ==
    /\ Loaded
    /\ Len(ProviderList(options)) = 3
    /\ AllData = <<[name |-> SentinelName, config |-> Cfg3],
                   [name |-> "t1", config |-> Cfg1],
                   [name |-> SentinelName, config |-> Cfg2]>>
    /\ DefaultLoadedAfter("t1")
    /\ Result.recs[SentinelName].config.m["x"] = V(2)
    /\ Result.recs["t1"].config.m["x"] = V(1)
    /\ Result.recs["t1"].config.m["y"] = V(3)

(***************************************************************************)
(* What the claim about the isolation of tenants speaks of.                *)
(***************************************************************************)
\* the options with config as the config of the i-th record of the provider
WithConfig(i, config) == [options EXCEPT !.providers.p.data[i].config = config]

\* the tenants of the collection coll other than u get the configs they have
\* in Result
SameForOthers(coll, u) ==
    /\ OwnKeys(coll) \ {u} = OwnKeys(Result) \ {u}
    /\ \A t \in OwnKeys(Result) \ {u} : coll.recs[t].config = Result.recs[t].config

\* C25: a run of loadTenants whose sources differ from this run's only in the
\* config of one record of a tenant u other than the sentinel resolves every
\* tenant other than u to the config it has in this run.
C25_TenantIsolation ==
    Loaded =>
        \A i \in 1..Len(AllData), config \in IsolationConfigs :
            AllData[i].name # SentinelName =>
                LET other == LoadTenants(WithConfig(i, config))
                IN  /\ other.err = "none"
                    /\ SameForOthers(other.coll, AllData[i].name)

(***************************************************************************)
(* What the claims about use() and cleanup() on one instance speak of.     *)
(***************************************************************************)
\* the handles the factory has returned and the finalizer was never given
Leaked == {h \in 1..created : finCount[h] = 0}

\* C26: after a cleanup() that returns normally, every handle the factory
\* ever returned for the instance has been passed to the finalizer.
C26_NoHandleLeaked ==
    (last.op = "cleanup" /\ Returned) => Leaked = {}

\* the keys of the factory's calls that returned a handle
KeysAttached(calls) == {calls[i].key : i \in {j \in 1..Len(calls) : calls[j].handle # 0}}

\* the place of key k in the iteration order of coll
PlaceOf(coll, k) == CHOOSE i \in 1..Len(coll.keys) : coll.keys[i] = k

\* the keys ahead of key k in the iteration order of coll whose config has a
\* truthy value at the config path
DueBefore(coll, k) ==
    {j \in OwnKeys(coll) :
        /\ PlaceOf(coll, j) < PlaceOf(coll, k)
        /\ IsTruthy(ValueAt(coll.recs[j].config, options.db.configPath))}

\* use() ended by a throw of the factory: the records due ahead of the
\* failing one hold the handles the factory returned for them, no other
\* record holds one, and no handle was passed to the finalizer
PartialAttach ==
    (last.op = "use" /\ last.err = "FactoryError") =>
        LET failing == last.calls[Len(last.calls)]
        IN  /\ failing.handle = 0
            /\ cur = last.coll
            /\ Holding(After) = DueBefore(After, failing.key)
            /\ Holding(After) = KeysAttached(last.calls)
            /\ \A i \in 1..Len(last.calls) - 1 :
                  After.recs[last.calls[i].key].db = last.calls[i].handle
            /\ \A h \in Handles(After) : finCount[h] = 0
            /\ last.fins = <<>>

\* cleanup() that returns normally: each handle a record held was passed to
\* the finalizer once by this call, nothing else was, and no record holds a
\* handle any more
CleanupDetachesAll ==
    (last.op = "cleanup" /\ Returned) =>
        /\ Holding(After) = {}
        /\ \A h \in Handles(Before) : Occurrences(last.fins, h) = 1
        /\ Len(last.fins) = Cardinality(Handles(Before))

\* C27: a factory failure during use() leaves the records processed earlier
\* with their handles and the failing record without one, and a cleanup()
\* after it passes each of those handles to the finalizer exactly once and
\* leaves every record detached.
C27_PartialAttachRecoverable == PartialAttach /\ CleanupDetachesAll

\* cleanup() after a use() in which the factory returned handle 1 for the
\* sentinel and threw for t1
C27_Witness ==
    /\ last.op = "cleanup"
    /\ Returned
    /\ Len(colls) = 1
    /\ created = 1
    /\ failures = 1
    /\ Before.keys = <<SentinelName, "t1">>
    /\ Before.recs[SentinelName].db = 1
    /\ Before.recs["t1"].db = 0
    /\ IsTruthy(ValueAt(Before.recs["t1"].config, options.db.configPath))
    /\ last.fins = <<1>>
    /\ finCount = <<1>>
    /\ Holding(After) = {}

(***************************************************************************)
(* What the later claims about the binder speak of.                        *)
(***************************************************************************)
\* the lookup key of q names no loaded tenant but a member every object
\* inherits
NamesBuiltInOnly(q) ==
    /\ TenantKey(q) \notin OwnKeys(colls[q.mw])
    /\ TenantKey(q) \in ObjectPrototypeMembers

\* the binder rejected q and set nothing on it
Rejected(q) == q.outcome = "403" /\ q.prop = "" /\ q.bound = NoBound

\* C28: a request whose lookup key names no loaded tenant but an inherited
\* built-in member of the collection is rejected with 403 and nothing is
\* attached to it.
C28_BuiltInsRejected ==
    \A q \in reqs : NamesBuiltInOnly(q) => Rejected(q)

\* C29: a request bound to a record that held a handle, with a cleanup()
\* that returned normally before its route handler read the handle, found
\* the handle absent.
C29_HandleGoneAfterCleanup ==
    \A q \in reqs :
        (q.handled /\ q.had # 0 /\ q.cleaned) => q.seen = 0

\* the sentinel's record in the collection of q's middleware
SentinelOf(q) == colls[q.mw].recs[SentinelName]

\* C30: a request whose lookup key is the sentinel's name, through a
\* middleware whose collection has the sentinel, is not rejected: it is bound
\* to the sentinel's record under the configured property, and the handle
\* that record holds is the one the request was given and its route handler
\* reads.  Where the collection has no sentinel, the key is rejected as an
\* unknown key is.
C30_SentinelIsOrdinary ==
    \A q \in reqs :
        TenantKey(q) = SentinelName =>
            IF SentinelName \in OwnKeys(colls[q.mw])
            THEN /\ q.outcome = "next"
                 /\ q.prop = options.req.path
                 /\ q.bound = [kind |-> "tenant", coll |-> q.mw, key |-> SentinelName]
                 /\ SentinelOf(q).db # 0 =>
                       /\ q.had = SentinelOf(q).db
                       /\ q.handled => q.seen = SentinelOf(q).db
            ELSE Rejected(q)

\* a request for the host _default_ whose route handler read the handle the
\* factory returned for the sentinel's db config
C30_Witness ==
    \E q \in reqs :
        /\ q.hostname = SentinelName
        /\ q.outcome = "next"
        /\ q.prop = "tenant"
        /\ q.handled
        /\ q.seen = 1
        /\ SentinelOf(q).db = 1
        /\ ValueAt(SentinelOf(q).config, options.db.configPath) = O("client" :> V(2))

====
